---- MODULE Spec2Model ----
(***************************************************************************)
(* Pine Flower Phenology Recognition (src/app.py): the cached              *)
(* StreamlitDetector, its detect_image / draw_detections / mock_detect /   *)
(* get_statistics methods and the request cycle of main().                 *)
(*                                                                         *)
(* Units.  A bbox coordinate c stands for c / CoordScale pixels, so that   *)
(* the floats YOLO returns (box.xyxy[0].tolist()) have a fractional part   *)
(* and int() is a real truncation.  A confidence is in hundredths.  The    *)
(* value random.random() returns is in thousandths (0 .. 999).             *)
(***************************************************************************)
EXTENDS Integers, Sequences, FiniteSets, TLC

VARIABLES
    pc,            \* position of the page: "start", "ready", "detected", "raised", "shown"
    model,         \* detector.model: "YOLO" or "None"
    heap,          \* the image objects alive during the request, by reference
    image,         \* reference of the image main() passes to detect_image
    detections,    \* the list detect_image returned
    result_image,  \* reference of the image detect_image returned
    errored,       \* st.error of detect_image's except block was shown (line 109)
    provider,      \* what produced `detections`: "none", "model" or "mock"
    invoked,       \* self.model(image_np) was called during the last detect_image
    stats          \* the record get_statistics returned

vars == <<pc, model, heap, image, detections, result_image, errored, provider,
          invoked, stats>>

---------------------------------------------------------------------------
(* Bounds of the model *)

\* sub-pixel resolution of a float coordinate
CoordScale == 2
\* the longest list of boxes the model's inference returns
MaxBoxes == 3

---------------------------------------------------------------------------
(* PINE_FLOWER_CLASSES and the fallback entry *)

PINE_FLOWER_CLASSES ==
    [c \in {0, 1, 2} |->
        CASE c = 0 -> [name |-> "elongation stage", color |-> <<0, 255, 0>>,
                       display_name |-> "Elongation Stage"]
          [] c = 1 -> [name |-> "ripening stage", color |-> <<255, 165, 0>>,
                       display_name |-> "Ripening Stage"]
          [] c = 2 -> [name |-> "decline stage", color |-> <<255, 0, 0>>,
                       display_name |-> "Decline Stage"]]

unknown_class ==
    [name |-> "unknown", color |-> <<255, 165, 0>>, display_name |-> "Unknown Stage"]

\* PINE_FLOWER_CLASSES.get(class_id, {...})
class_info_wrong_fallback(class_id) ==
    IF class_id \in DOMAIN PINE_FLOWER_CLASSES
    THEN PINE_FLOWER_CLASSES[class_id]
    ELSE PINE_FLOWER_CLASSES[1]

class_info(class_id) ==
    IF class_id \in DOMAIN PINE_FLOWER_CLASSES
    THEN PINE_FLOWER_CLASSES[class_id]
    ELSE unknown_class

\* the detection record both providers build
detection_record(bbox, confidence, class_id, info) ==
    [bbox |-> bbox, confidence |-> confidence, class_name |-> info.name,
     display_name |-> info.display_name, class_id |-> class_id,
     color |-> info.color]

---------------------------------------------------------------------------
(* Images: objects on a heap.  `pixels` is what has been drawn over the     *)
(* decoded picture, in drawing order; the decoded picture itself is <<>>.   *)

IMAGE == 1      \* the object main() opened
CANVAS == 2     \* the next free reference

NoImage == [kind |-> "none", width |-> 0, height |-> 0, pixels |-> <<>>]

\* the uploaded pictures: one narrower than mock_detect's margins, the
\* smallest one the mock's constraints are feasible for, and a usual one
ImageSizes == {<<100, 100>>, <<300, 300>>, <<640, 480>>}
ImageKinds == {"PIL", "ndarray"}

new_image(kind, size) ==
    [kind |-> kind, width |-> size[1], height |-> size[2], pixels |-> <<>>]

\* int() of a float: truncation toward zero
int(c) == IF c >= 0 THEN c \div CoordScale ELSE -((-c) \div CoordScale)

\* a whole number of pixels as a coordinate
px(n) == n * CoordScale


---------------------------------------------------------------------------
(* mock_detect *)

\* One loop iteration's random outcomes: for each random.randint call whether
\* it returned the low (0) or the high (1) end of its range, the value of
\* random.random() in thousandths, and the class drawn by randint(0, 2).
MockDraws ==
    { [x1 |-> p, y1 |-> p, dx |-> s, dy |-> s, r |-> IF s = 0 THEN 0 ELSE 999,
       class_id |-> c] : p \in {0, 1}, s \in {0, 1}, c \in {0, 1, 2} }

\* random.randint(2, 4) iterations, each with its outcomes
MockTapes == UNION { [1..n -> MockDraws] : n \in 2..4 }

\* random.randint(a, b) raises ValueError when the range is empty
randint_raises(a, b) == a > b
randint(a, b, end) == IF end = 0 THEN a ELSE b

\* round(0.7 + r * 0.25, 2), r in thousandths, the result in hundredths:
\* (2800 + r) / 40 rounded to the nearest integer, ties to even
round_confidence(r) ==
    LET n == 2800 + r
        q == n \div 40
        m == n % 40
    IN  IF m > 20 \/ (m = 20 /\ q % 2 = 1) THEN q + 1 ELSE q

mock_detection(width, height, d) ==
    LET x1 == randint(50, width - 150, d.x1)
        y1 == randint(50, height - 150, d.y1)
        x2 == x1 + randint(80, 200, d.dx)
        y2 == y1 + randint(80, 200, d.dy)
    IN  detection_record(<<px(x1), px(y1), px(x2), px(y2)>>,
                         round_confidence(d.r), d.class_id,
                         PINE_FLOWER_CLASSES[d.class_id])

\* [raised, value]: the exception leaves mock_detect from the first iteration
mock_detect(img, tape) ==
    LET width == img.width
        height == img.height
    IN  IF Len(tape) > 0 /\ (randint_raises(50, width - 150)
                             \/ randint_raises(50, height - 150))
        THEN [raised |-> TRUE, value |-> <<>>]
        ELSE [raised |-> FALSE,
              value |-> [i \in 1..Len(tape) |-> mock_detection(width, height, tape[i])]]

---------------------------------------------------------------------------
(* draw_detections *)

\* What draw.textbbox gives for the font in use: a measurement per character
\* and a height, or no measurement at all (the bare except of line 170).
Fonts ==
    { [measurable |-> TRUE, char_width |-> 6, height |-> 11],
      [measurable |-> TRUE, char_width |-> 9, height |-> 15],
      [measurable |-> FALSE, char_width |-> 0, height |-> 0] }

\* f"{conf:.2f}", conf in hundredths
format_2f(conf) ==
    ToString(conf \div 100) \o "." \o ToString((conf \div 10) % 10) \o ToString(conf % 10)

label_text(det) == det.display_name \o " " \o format_2f(det.confidence)

\* <<text_width, text_height>>
text_size(label, font) ==
    IF font.measurable
    THEN <<Len(label) * font.char_width, font.height>>
    ELSE <<Len(label) * 10, 20>>

coords_invalid_x_only(x1, y1, x2, y2) == x1 >= x2

coords_invalid(x1, y1, x2, y2) == x1 >= x2 \/ y1 >= y2

label_y_of(y1, text_height) ==
    IF y1 - text_height - 5 > 5 THEN y1 - text_height - 5 ELSE 5

\* what one iteration of the loop of line 140 draws for detections[i]
draw_one(det, i, font) ==
    LET x1 == int(det.bbox[1])
        y1 == int(det.bbox[2])
        x2 == int(det.bbox[3])
        y2 == int(det.bbox[4])
        label == label_text(det)
        size == text_size(label, font)
        label_y == label_y_of(y1, size[2])
    IN  IF coords_invalid(x1, y1, x2, y2)
        THEN <<>>
        ELSE << [shape |-> "box", det |-> i, xy |-> <<x1, y1, x2, y2>>,
                 color |-> det.color],
                [shape |-> "label", det |-> i,
                 xy |-> <<x1, label_y, x1 + size[1] + 10, label_y + size[2] + 5>>,
                 color |-> det.color],
                [shape |-> "text", det |-> i, xy |-> <<x1 + 5, label_y + 2>>,
                 text |-> label] >>

RECURSIVE draw_loop(_, _, _, _)
draw_loop(pixels, dets, i, font) ==
    IF i > Len(dets) THEN pixels
    ELSE draw_loop(pixels \o draw_one(dets[i], i, font), dets, i + 1, font)

\* Image.fromarray(image.astype('uint8')) or image.copy(): a PIL image of the
\* same size and content
copy_image(img) == [img EXCEPT !.kind = "PIL"]

\* where the image drawn on lives
pil_image_aliased(img_ref) == img_ref

pil_image(img_ref) == CANVAS

\* [heap, result]
draw_detections(hp, img_ref, dets, font) ==
    IF Len(dets) = 0
    THEN [heap |-> hp, result |-> img_ref]
    ELSE LET canvas == pil_image(img_ref)
             copied == [hp EXCEPT ![canvas] = copy_image(hp[img_ref])]
             drawn == draw_loop(copied[canvas].pixels, dets, 1, font)
         IN  [heap |-> [copied EXCEPT ![canvas].pixels = drawn], result |-> canvas]


---------------------------------------------------------------------------
(* get_statistics *)

\* stats['by_stage'][stage] = 1
count_stage_assign(by_stage, stage) ==
    IF stage \in DOMAIN by_stage
    THEN [by_stage EXCEPT ![stage] = 1]
    ELSE by_stage @@ [s \in {stage} |-> 1]

\* stats['by_stage'][stage] += 1 on a defaultdict(int)
count_stage(by_stage, stage) ==
    IF stage \in DOMAIN by_stage
    THEN [by_stage EXCEPT ![stage] = @ + 1]
    ELSE by_stage @@ [s \in {stage} |-> 0 + 1]

RECURSIVE count_stages(_, _, _)
count_stages(by_stage, dets, i) ==
    IF i > Len(dets) THEN by_stage
    ELSE count_stages(count_stage(by_stage, dets[i].display_name), dets, i + 1)

empty_stats == [total_count |-> 0, by_stage |-> <<>>]

get_statistics(dets) ==
    IF Len(dets) = 0
    THEN empty_stats
    ELSE [total_count |-> Len(dets),
          by_stage |-> count_stages(empty_stats.by_stage, dets, 1)]

---------------------------------------------------------------------------
(* detect_image *)

\* The boxes a result of the model's inference can hold: class index,
\* confidence (hundredths) and xyxy (floats).
ModelBoxes ==
    { \* an ordinary box, room for the label above it
      [cls |-> 0, conf |-> 90, xyxy |-> <<px(10), px(60), px(200), px(220)>>],
      \* x1 >= x2
      [cls |-> 1, conf |-> 55, xyxy |-> <<px(100), px(50), px(80), px(150)>>],
      \* at the top edge, near the right edge of a 640 px wide picture
      [cls |-> 2, conf |-> 80, xyxy |-> <<px(600), px(0), px(630), px(100)>>],
      \* x1 < x2 as floats, equal once truncated; a class the table lacks
      [cls |-> 7, conf |-> 30, xyxy |-> <<px(10), px(5), px(11) - 1, px(20)>>],
      \* y1 >= y2
      [cls |-> 0, conf |-> 100, xyxy |-> <<px(20), px(30), px(40), px(30)>>],
      \* partly left of the picture, a negative float
      [cls |-> 1, conf |-> 75, xyxy |-> <<0 - px(5) - 1, px(200), px(50), px(300)>>] }

\* one element of `results`: result.boxes is None, or a list of boxes
ModelResults ==
    { [boxes_none |-> TRUE, boxes |-> <<>>] }
    \cup { [boxes_none |-> FALSE, boxes |-> b] :
             b \in UNION { [1..n -> ModelBoxes] : n \in 0..MaxBoxes } }

\* what self.model(image_np) does: raises, or returns one result per image
Inferences ==
    { [raises |-> TRUE, results |-> <<>>] }
    \cup { [raises |-> FALSE, results |-> <<r>>] : r \in ModelResults }

\* lines 71-93: the detection built from one box
box_detection(box) ==
    LET class_id == box.cls
    IN  detection_record(box.xyxy, box.conf, class_id, class_info(class_id))

result_detections(result) ==
    IF result.boxes_none THEN <<>>
    ELSE [j \in 1..Len(result.boxes) |-> box_detection(result.boxes[j])]

RECURSIVE collect_detections(_, _, _)
collect_detections(dets, results, i) ==
    IF i > Len(results) THEN dets
    ELSE collect_detections(dets \o result_detections(results[i]), results, i + 1)

\* The try block up to line 101: [raised, value, provider, invoked]
provide(mdl, img, inference, tape) ==
    IF mdl # "None"
    THEN IF inference.raises
         THEN [raised |-> TRUE, value |-> <<>>, provider |-> "none", invoked |-> TRUE]
         ELSE [raised |-> FALSE,
               value |-> collect_detections(<<>>, inference.results, 1),
               provider |-> "model", invoked |-> TRUE]
    ELSE LET m == mock_detect(img, tape)
         IN  [raised |-> m.raised, value |-> m.value,
              provider |-> IF m.raised THEN "none" ELSE "mock", invoked |-> FALSE]

\* The whole method.  `tape` is the random outcomes of the mock_detect call
\* that returns; a mock_detect call that raises does so whatever they are.
detect_image(mdl, hp, img_ref, inference, tape, font) ==
    LET tried == provide(mdl, hp[img_ref], inference, tape)
    IN  IF ~tried.raised
        THEN LET drawn == draw_detections(hp, img_ref, tried.value, font)
             IN  [raised |-> FALSE, detections |-> tried.value,
                  result_image |-> drawn.result, heap |-> drawn.heap,
                  errored |-> FALSE, provider |-> tried.provider,
                  invoked |-> tried.invoked]
        ELSE LET fallback == mock_detect(hp[img_ref], tape)
             IN  [raised |-> fallback.raised, detections |-> fallback.value,
                  result_image |-> img_ref, heap |-> hp,
                  errored |-> TRUE,
                  provider |-> IF fallback.raised THEN "none" ELSE "mock",
                  invoked |-> tried.invoked]

---------------------------------------------------------------------------
(* The page: load_detector (cached), then per click detect_image and        *)
(* get_statistics.                                                          *)

Init ==
    /\ pc = "start"
    /\ model = "None"
    /\ heap = [r \in {IMAGE, CANVAS} |-> NoImage]
    /\ image = IMAGE
    /\ detections = <<>>
    /\ result_image = IMAGE
    /\ errored = FALSE
    /\ provider = "none"
    /\ invoked = FALSE
    /\ stats = empty_stats

\* StreamlitDetector('models/best.pt'): YOLO(...) loads or raises
load_detector ==
    /\ pc = "start"
    /\ \E loads \in BOOLEAN : model' = IF loads THEN "YOLO" ELSE "None"
    /\ pc' = "ready"
    /\ UNCHANGED <<heap, image, detections, result_image, errored, provider,
                   invoked, stats>>

\* the outcome `out` of detect_image on a freshly opened picture
Returned(fresh, out) ==
    /\ heap' = out.heap
    /\ image' = IMAGE
    /\ detections' = out.detections
    /\ result_image' = out.result_image
    /\ errored' = out.errored
    /\ provider' = out.provider
    /\ invoked' = out.invoked
    /\ pc' = IF out.raised THEN "raised" ELSE "detected"
    /\ stats' = empty_stats
    /\ UNCHANGED model

Upload(kind, size) == [r \in {IMAGE, CANVAS} |->
                          IF r = IMAGE THEN new_image(kind, size) ELSE NoImage]

\* "Start Detection" with the model loaded
DetectWithModel ==
    /\ pc = "ready"
    /\ model # "None"
    /\ \E kind \in ImageKinds, size \in ImageSizes, font \in Fonts :
         \/ \E inference \in Inferences :
              /\ ~inference.raises
              /\ Returned(Upload(kind, size),
                          detect_image(model, Upload(kind, size), IMAGE, inference,
                                       <<>>, font))
         \/ \E inference \in Inferences, tape \in MockTapes :
              /\ inference.raises
              /\ Returned(Upload(kind, size),
                          detect_image(model, Upload(kind, size), IMAGE, inference,
                                       tape, font))

\* "Start Detection" with no model
DetectWithMock ==
    /\ pc = "ready"
    /\ model = "None"
    /\ \E kind \in ImageKinds, size \in ImageSizes, font \in Fonts, tape \in MockTapes :
         Returned(Upload(kind, size),
                  detect_image(model, Upload(kind, size), IMAGE,
                               [raises |-> FALSE, results |-> <<>>], tape, font))

\* main(), line 286
ShowStatistics ==
    /\ pc = "detected"
    /\ stats' = get_statistics(detections)
    /\ pc' = "shown"
    /\ UNCHANGED <<model, heap, image, detections, result_image, errored,
                   provider, invoked>>

\* The next interaction reruns the script: the run's locals are gone, the
\* cached detector stays.
Rerun ==
    /\ pc \in {"shown", "raised"}
    /\ pc' = "ready"
    /\ heap' = [r \in {IMAGE, CANVAS} |-> NoImage]
    /\ image' = IMAGE
    /\ detections' = <<>>
    /\ result_image' = IMAGE
    /\ errored' = FALSE
    /\ provider' = "none"
    /\ invoked' = FALSE
    /\ stats' = empty_stats
    /\ UNCHANGED model

Next ==
    \/ load_detector
    \/ DetectWithModel
    \/ DetectWithMock
    \/ ShowStatistics
    \/ Rerun

Spec == Init /\ [][Next]_vars


---------------------------------------------------------------------------
(* Properties *)

HasResult == pc \in {"detected", "shown"}
Called == pc \in {"detected", "shown", "raised"}

x1_of(det) == det.bbox[1]
y1_of(det) == det.bbox[2]
x2_of(det) == det.bbox[3]
y2_of(det) == det.bbox[4]

\* the detections draw_detections is to draw: ordered once coerced to integers
Drawable(dets) ==
    { i \in 1..Len(dets) :
        /\ int(x1_of(dets[i])) < int(x2_of(dets[i]))
        /\ int(y1_of(dets[i])) < int(y2_of(dets[i])) }

\* the detections for which `pixels` holds a shape of the given kind
DrawnAs(pixels, shape) ==
    { pixels[k].det : k \in { j \in 1..Len(pixels) : pixels[j].shape = shape } }

CountAs(pixels, shape) ==
    Cardinality({ j \in 1..Len(pixels) : pixels[j].shape = shape })

StagesOf(dets) == { dets[i].display_name : i \in 1..Len(dets) }

Occurrences(dets, stage) ==
    Cardinality({ i \in 1..Len(dets) : dets[i].display_name = stage })

RECURSIVE SumCounts(_, _)
SumCounts(f, S) ==
    IF S = {} THEN 0
    ELSE LET k == CHOOSE k \in S : TRUE IN f[k] + SumCounts(f, S \ {k})

RECURSIVE SumConfidence(_, _)
SumConfidence(dets, i) ==
    IF i > Len(dets) THEN 0 ELSE dets[i].confidence + SumConfidence(dets, i + 1)

\* C1: when detection fails inside detect_image (its except block ran), the
\* call returns normally with an empty detection list and the original
\* image, and the statistics of its result have total_count 0 and an empty
\* by_stage.
C1_FailureGivesEmptyResult ==
    errored =>
        /\ pc # "raised"
        /\ detections = <<>>
        /\ result_image = image
        /\ pc = "shown" => (stats.total_count = 0 /\ DOMAIN stats.by_stage = {})

\* C2: total_count is the length of the list, by_stage maps each
\* display_name to the number of detections carrying it (the counts sum to
\* total_count, none is 0), and the empty list gives 0 and an empty by_stage.
C2_StatisticsCount ==
    pc = "shown" =>
        /\ stats.total_count = Len(detections)
        /\ DOMAIN stats.by_stage = StagesOf(detections)
        /\ \A stage \in DOMAIN stats.by_stage :
              /\ stats.by_stage[stage] = Occurrences(detections, stage)
              /\ stats.by_stage[stage] > 0
        /\ SumCounts(stats.by_stage, DOMAIN stats.by_stage) = stats.total_count
        /\ detections = <<>> => (stats.total_count = 0 /\ DOMAIN stats.by_stage = {})

C2_Witness ==
    /\ pc = "shown"
    /\ Len(detections) = 3
    /\ Cardinality(DOMAIN stats.by_stage) = 2
    /\ \E stage \in DOMAIN stats.by_stage : stats.by_stage[stage] = 2

\* C3: the statistics record holds avg_confidence, the arithmetic mean of
\* the detections' confidences, and 0 for the empty list.
C3_AvgConfidence ==
    pc = "shown" =>
        /\ "avg_confidence" \in DOMAIN stats
        /\ IF Len(detections) = 0
           THEN stats.avg_confidence = 0
           ELSE stats.avg_confidence * Len(detections) = SumConfidence(detections, 1)

\* C4: every detection record detect_image returns has display_name,
\* class_name and color of the PINE_FLOWER_CLASSES entry of its class_id when
\* the table has it; otherwise it is "Unknown Stage" with a fallback color.
C4_ClassMetadata ==
    HasResult =>
        \A i \in 1..Len(detections) :
            LET det == detections[i] IN
            IF det.class_id \in {0, 1, 2}
            THEN /\ det.display_name = PINE_FLOWER_CLASSES[det.class_id].display_name
                 /\ det.class_name = PINE_FLOWER_CLASSES[det.class_id].name
                 /\ det.color = PINE_FLOWER_CLASSES[det.class_id].color
            ELSE /\ det.display_name = "Unknown Stage"
                 /\ Len(det.color) = 3
                 /\ \A k \in 1..3 : det.color[k] \in 0..255

C4_Witness ==
    /\ HasResult
    /\ provider = "model"
    /\ \E i, j \in 1..Len(detections) :
          /\ detections[i].class_id = 7
          /\ detections[i].display_name = "Unknown Stage"
          /\ detections[j].class_id = 2
          /\ detections[j].display_name = "Decline Stage"

\* C5: draw_detections draws a rectangle and a label for exactly the
\* detections whose integer-coerced bbox has x1 < x2 and y1 < y2, each once,
\* wherever the invalid ones stand in the list.
C5_DrawsExactlyValid ==
    (HasResult /\ ~errored) =>
        LET pixels == heap[result_image].pixels IN
        /\ DrawnAs(pixels, "box") = Drawable(detections)
        /\ DrawnAs(pixels, "label") = Drawable(detections)
        /\ DrawnAs(pixels, "text") = Drawable(detections)
        /\ CountAs(pixels, "box") = Cardinality(Drawable(detections))
        /\ CountAs(pixels, "label") = Cardinality(Drawable(detections))

C5_Witness ==
    /\ HasResult /\ ~errored
    /\ Len(detections) = 3
    /\ detections[2].bbox = <<px(100), px(50), px(80), px(150)>>
    /\ Drawable(detections) = {1, 3}
    /\ DrawnAs(heap[result_image].pixels, "box") = {1, 3}

\* C6: every detection detect_image returns has x1 < x2 and y1 < y2.
C6_ReturnedBoxesOrdered ==
    HasResult =>
        \A i \in 1..Len(detections) :
            /\ x1_of(detections[i]) < x2_of(detections[i])
            /\ y1_of(detections[i]) < y2_of(detections[i])

\* C7: the image given to draw_detections has the same pixels after the
\* call as before (nothing is drawn over it), whatever the detections and
\* the representation; what is drawn is drawn on another object.
C7_InputImageUntouched ==
    Called =>
        /\ heap[image].pixels = <<>>
        /\ heap[image].kind \in ImageKinds
        /\ heap[result_image].pixels # <<>> => result_image # image

C7_Witness ==
    /\ HasResult /\ ~errored
    /\ heap[image].kind = "ndarray"
    /\ Drawable(detections) # {}
    /\ Drawable(detections) # 1..Len(detections)
    /\ result_image # image
    /\ heap[result_image].pixels # <<>>
    /\ heap[image].pixels = <<>>

\* C8: every label strip drawn lies inside the canvas.
C8_LabelInsideCanvas ==
    HasResult =>
        LET canvas == heap[result_image]
            pixels == canvas.pixels
        IN  \A k \in 1..Len(pixels) :
                pixels[k].shape = "label" =>
                    /\ 0 <= pixels[k].xy[1] /\ pixels[k].xy[3] <= canvas.width
                    /\ 0 <= pixels[k].xy[2] /\ pixels[k].xy[4] <= canvas.height

\* C9: with no model loaded, every detect_image call returns mock_detect's
\* detections and the image annotated from them, and never invokes the model.
C9_NoModelUsesMock ==
    (model = "None" /\ Called) =>
        /\ pc # "raised"
        /\ provider = "mock"
        /\ ~invoked
        /\ ~errored
        /\ DrawnAs(heap[result_image].pixels, "box") = Drawable(detections)

\* C10: for a picture of at least 300 x 300, mock_detect returns 1 to 4
\* detections, each with class_id in {0,1,2}, confidence in [0.70, 0.95] and
\* 50 <= x1 < x2 <= width-50, 50 <= y1 < y2 <= height-50.
C10_MockWithinMargins ==
    (HasResult /\ provider = "mock" /\ heap[image].width >= 300
               /\ heap[image].height >= 300) =>
        /\ Len(detections) \in 1..4
        /\ \A i \in 1..Len(detections) :
              LET det == detections[i] IN
              /\ det.class_id \in {0, 1, 2}
              /\ det.confidence \in 70..95
              /\ px(50) <= x1_of(det) /\ x1_of(det) < x2_of(det)
              /\ x2_of(det) <= px(heap[image].width - 50)
              /\ px(50) <= y1_of(det) /\ y1_of(det) < y2_of(det)
              /\ y2_of(det) <= px(heap[image].height - 50)

====
